---- MODULE Spec2Model ----
(***************************************************************************)
(* Model of two drivers of the stm32h7xx HAL:                              *)
(*   src/src/dac.rs            the DAC channel type-state driver           *)
(*   src/src/xspi/octospi.rs   the OCTOSPI / Hyperbus configuration paths  *)
(*                                                                         *)
(* u32 quantities (clock rates, intervals, cycle counts) do not fit the    *)
(* integers of the model checker, so they are carried as two 16-bit limbs  *)
(* <<hi, lo>> standing for hi * 2^16 + lo.  Intermediate results may have  *)
(* hi >= 2^16; the u32 operators say whether the result left 32 bits.      *)
(***************************************************************************)
EXTENDS Integers, Sequences, FiniteSets, TLC

(***************************************************************************)
(* Two-limb naturals                                                       *)
(***************************************************************************)
Limb == 2^16

\* the two-limb form of an integer 0 <= n < 2^31
W(n) == <<n \div Limb, n % Limb>>

WNorm(h, l) == <<h + (l \div Limb), l % Limb>>

WAdd(a, b) == WNorm(a[1] + b[1], a[2] + b[2])

WLess(a, b) == a[1] < b[1] \/ (a[1] = b[1] /\ a[2] < b[2])

WLeq(a, b) == ~WLess(b, a)

\* a - b for a >= b
WSub(a, b) ==
    IF a[2] >= b[2] THEN <<a[1] - b[1], a[2] - b[2]>>
    ELSE <<a[1] - b[1] - 1, a[2] + Limb - b[2]>>

\* a * c for a < 2^32 and a small factor 0 <= c < 2^15
WMul(a, c) == WNorm(a[1] * c, a[2] * c)

WFitsU32(a) == a[1] < Limb

WWrapU32(a) == <<a[1] % Limb, a[2]>>

\* a < 2^31: the value is an integer of the model checker
WSmall(a) == a[1] < 2^15

WInt(a) == a[1] * Limb + a[2]

\* floor(a / b) for a, b < 2^32 and b # 0, by integer divisions below 2^31:
\* a large dividend is halved, divided, and the last quotient bit restored
WDiv(a, b) ==
    IF ~WSmall(b) THEN (IF WLeq(b, a) THEN <<0, 1>> ELSE <<0, 0>>)
    ELSE IF WSmall(a) THEN W(WInt(a) \div WInt(b))
    ELSE LET d == WInt(b)
             a1 == a[1] * 2^15 + (a[2] \div 2)
             a0 == a[2] % 2
             q1 == a1 \div d
             r1 == a1 % d
             c == IF r1 + a0 >= d - r1 THEN 1 ELSE 0
         IN  WAdd(WAdd(W(q1), W(q1)), <<0, c>>)

WZero == <<0, 0>>
WOne == <<0, 1>>
U32Max == <<Limb - 1, Limb - 1>>

(***************************************************************************)
(* Rust u32 / u8 arithmetic.  An overflowing operation panics when the     *)
(* build has overflow checks (debug profile) and wraps otherwise; a        *)
(* division by zero panics in every build.  A result is                    *)
(* [panic |-> "none" | "overflow" | "divzero", val |-> value]              *)
(***************************************************************************)
Ok(v) == [panic |-> "none", val |-> v]
Panic(p) == [panic |-> p, val |-> WZero]

U32Add(checks, a, b) ==
    LET s == WAdd(a, b) IN
    IF WFitsU32(s) THEN Ok(s)
    ELSE IF checks THEN Panic("overflow") ELSE Ok(WWrapU32(s))

U32Sub(checks, a, b) ==
    IF WLeq(b, a) THEN Ok(WSub(a, b))
    ELSE IF checks THEN Panic("overflow")
    ELSE Ok(WSub(WAdd(a, <<Limb, 0>>), b))

U32Mul(checks, a, c) ==
    LET p == WMul(a, c) IN
    IF WFitsU32(p) THEN Ok(p)
    ELSE IF checks THEN Panic("overflow") ELSE Ok(WWrapU32(p))

U32Div(a, b) == IF b = WZero THEN Panic("divzero") ELSE Ok(WDiv(a, b))

\* (a + b - 1) / b as the source writes it, evaluated left to right
FloorDivU32(checks, a, b) == U32Div(a, b)
CeilDivU32(checks, a, b) ==
    LET s == U32Add(checks, a, b) IN
    IF s.panic # "none" THEN s
    ELSE LET t == U32Sub(checks, s.val, WOne) IN
         IF t.panic # "none" THEN t ELSE U32Div(t.val, b)

(***************************************************************************)
(* IEEE-754 single precision, for the clock period of the Hyperbus path.   *)
(* A positive finite f32 is [m |-> mantissa, e |-> exponent] with          *)
(* 2^23 <= m < 2^24, standing for m * 2^e.  Every operation rounds to      *)
(* nearest, ties to even.                                                  *)
(***************************************************************************)
\* number of significant bits of 1 <= n < 2^31
BitLen(n) == CHOOSE l \in 1..31 : (l = 31 \/ n < 2^l) /\ n >= 2^(l - 1)

\* the f32 nearest to (n + x) * 2^e, where 0 <= x < 1 and sticky says x > 0;
\* a caller with sticky set passes n of more than 25 bits
F32Round(n, e, sticky) ==
    LET l == BitLen(n) IN
    IF l <= 24 THEN [m |-> n * 2^(24 - l), e |-> e - (24 - l)]
    ELSE LET s == l - 24
             q == n \div 2^s
             rem == n % 2^s
             half == 2^(s - 1)
             up == \/ rem > half
                   \/ rem = half /\ sticky
                   \/ rem = half /\ ~sticky /\ q % 2 = 1
             m == IF up THEN q + 1 ELSE q
         IN  IF m = 2^24 THEN [m |-> 2^23, e |-> e + s + 1]
             ELSE [m |-> m, e |-> e + s]

\* `x as f32` for a u32 x >= 1
F32FromU32(x) ==
    IF WSmall(x) THEN F32Round(WInt(x), 0, FALSE)
    ELSE \* 2^31 <= x < 2^32: 32 significant bits, 8 of them dropped
         LET q == x[1] * 2^8 + (x[2] \div 2^8)
             rem == x[2] % 2^8
             up == rem > 2^7 \/ (rem = 2^7 /\ q % 2 = 1)
             m == IF up THEN q + 1 ELSE q
         IN  IF m = 2^24 THEN [m |-> 2^23, e |-> 9] ELSE [m |-> m, e |-> 8]

\* the literal 1e9 = 1953125 * 2^9 (exact in f32) times `divisor as f32`
F32OneE9Times(d) == F32Round(1953125 * d, 9, FALSE)

\* a.m / b.m to 26 fractional bits, 7 + 7 + 7 + 5 bits at a time so that
\* every intermediate stays below 2^31, then rounded; the remainder is sticky
F32Div(a, b) ==
    LET q0 == a.m \div b.m
        r0 == a.m % b.m
        q1 == (r0 * 2^7) \div b.m
        r1 == (r0 * 2^7) % b.m
        q2 == (r1 * 2^7) \div b.m
        r2 == (r1 * 2^7) % b.m
        q3 == (r2 * 2^7) \div b.m
        r3 == (r2 * 2^7) % b.m
        q4 == (r3 * 2^5) \div b.m
        r4 == (r3 * 2^5) % b.m
        q == (((q0 * 2^7 + q1) * 2^7 + q2) * 2^7 + q3) * 2^5 + q4
    IN  F32Round(q, a.e - b.e - 26, r4 # 0)

\* `x as u32`: truncation toward zero, saturating at u32::MAX
F32ToU32(x) ==
    IF x.e > 8 THEN U32Max
    ELSE IF x.e >= 0 THEN WMul(W(x.m), 2^(x.e))
    ELSE IF -(x.e) >= 24 THEN WZero
    ELSE W(x.m \div 2^(-(x.e)))

\* `x as u8` of a u32
AsU8(x) == x[2] % 2^8

(***************************************************************************)
(* The timing computations of the two configure paths (octospi.rs)         *)
(***************************************************************************)
RangeMsg == "Invalid OCTOSPI frequency requested"

\* 1 <= q <= 256, the arm `divisor @ 1..=256`
InDivisorRange(q) == WLeq(WOne, q) /\ WLeq(q, W(256))

\* SPI path: the local `divisor` is the prescaler field value, quotient - 1
SpiDivisor(checks, spi_kernel_ck, spi_frequency) ==
    LET q == CeilDivU32(checks, spi_kernel_ck, spi_frequency) IN
    IF q.panic # "none" THEN q
    ELSE IF InDivisorRange(q.val) THEN Ok(WSub(q.val, WOne))
    ELSE Panic(RangeMsg)

\* Hyperbus path: the local `divisor` is the quotient narrowed to u8
HyperbusDivisor(checks, spi_kernel_ck, spi_frequency) ==
    LET q == CeilDivU32(checks, spi_kernel_ck, spi_frequency) IN
    IF q.panic # "none" THEN q
    ELSE IF InDivisorRange(q.val) THEN Ok(W(AsU8(q.val)))
    ELSE Panic(RangeMsg)

\* Hertz(spi_kernel_ck / divisor as u32)
HyperbusFrequency(spi_kernel_ck, divisor) == U32Div(spi_kernel_ck, divisor)

\* 1e9 * (divisor as f32) / (spi_kernel_ck as f32), then `as u32`
PeriodNs(divisor, spi_kernel_ck) ==
    CHOOSE p \in {F32ToU32(q) :
                    q \in {F32Div(a, b) :
                             a \in {F32OneE9Times(WInt(divisor))},
                             b \in {F32FromU32(spi_kernel_ck)}}} : TRUE

\* interval_ns = 1000 * refresh_interval; (interval_ns + period_ns - 1) / period_ns
RefreshCycles(checks, refresh_interval, period_ns) ==
    LET interval_ns == U32Mul(checks, refresh_interval, 1000) IN
    IF interval_ns.panic # "none" THEN interval_ns
    ELSE CeilDivU32(checks, interval_ns.val, period_ns)

(***************************************************************************)
(* State                                                                   *)
(***************************************************************************)
VARIABLES
    overflow_checks, \* build profile: TRUE when integer overflow panics
    panic,           \* [msg, at]: msg = "none" while the program runs
    \* ---- OCTOSPI (octospi.rs)
    ospi,            \* the register block of the instance
    hw_busy,         \* SR.BUSY, owned by the hardware
    otok,            \* what the caller holds: Peripheral, Octospi, Hyperbus, MemoryMapped
    opc,             \* position inside the running OCTOSPI function, or "idle"
    oarg,            \* arguments of the running / last OCTOSPI function
    oloc,            \* its locals: divisor, frequency, period_ns, refresh_cycles
    wlog,            \* registers written by it, in program order
    mem,             \* the pointer returned by Hyperbus::init
    \* ---- DAC (dac.rs)
    dac,             \* CR (en, cen), MCR (mode), CCR (otrim), per channel
    token,           \* type state of each channel token: the ED parameter
    pc,              \* position inside the running DAC method, or "idle"
    trim,            \* the local `trim` of calibrate_buffer
    calhist,         \* the calibrations that ended last on each channel
    rd,              \* the register value a `modify` has read and not yet written
    got,             \* the value get_value returned last
    \* ---- ownership
    live             \* number of live tokens of each peripheral instance

ovars == <<ospi, hw_busy, otok, opc, oarg, oloc, wlog, mem>>
dvars == <<dac, token, pc, trim, calhist, rd, got>>
vars == <<overflow_checks, panic, ospi, hw_busy, otok, opc, oarg, oloc, wlog,
          mem, dac, token, pc, trim, calhist, rd, got, live>>

NoPanic == [msg |-> "none", at |-> "none"]

(***************************************************************************)
(* OCTOSPI: inputs                                                         *)
(***************************************************************************)
Instances == {1, 2}

\* the $memaddr literal of each octospi_impl! instantiation, as limbs
MemAddrOne(inst) == <<36864, 0>>
MemAddr(inst) == IF inst = 1 THEN <<36864, 0>> ELSE <<28672, 0>>

KernelClocks ==
    { W(0), W(90000000), W(90000001), W(256000000), W(280000000),
      W(2000000000), U32Max }

Frequencies ==
    { W(0), W(1000000), W(10000000), W(50000000), W(2000000000), U32Max }

\* MicroSeconds: 0 (no limit), the default 4, and two large intervals
RefreshIntervals == { W(0), W(4), W(4294967), W(2000000000) }

\* device_size_bytes(size_order): 32 bytes, 16 MByte, 256 MByte
SizeOrders == {5, 24, 26}

SpiConfigs ==
    [ frequency : Frequencies,
      mode_reg_value : {1, 4},
      dummy_cycles : {0},
      sampling_falling : BOOLEAN,
      fifo_threshold : {1, 32} ]

\* HyperbusConfig::new(frequency) with some setters applied
HyperbusConfigs ==
    [ frequency : Frequencies,
      size_order : SizeOrders,
      refresh_interval : RefreshIntervals,
      chip_select_high : {4},
      read_write_recovery : {4},
      access_initial_latency : {6} ]

NoArg == [kind |-> "none", inst |-> 1, spi_kernel_ck |-> WZero,
          config |-> [frequency |-> WZero]]

NoLoc == [divisor |-> WZero, frequency |-> WZero, period_ns |-> WZero,
          refresh_cycles |-> WZero]

(***************************************************************************)
(* OCTOSPI: registers.  `write` starts from the reset value of the         *)
(* register, `modify` from its current value.                              *)
(***************************************************************************)
CcrReset == [dmode |-> 0, admode |-> 0, adsize |-> 0, imode |-> 0,
             dqse |-> FALSE, ddtr |-> FALSE, addtr |-> FALSE]

OspiReset ==
    [ cr |-> [en |-> FALSE, fmode |-> 0, fthres |-> 0],
      flags |-> {},
      dcr1 |-> [mtyp |-> 0, devsize |-> 0, csht |-> 0],
      dcr2 |-> [prescaler |-> 0],
      dcr3 |-> [csbound |-> 0],
      dcr4 |-> [refresh |-> WZero],
      ccr |-> CcrReset,
      wccr |-> CcrReset,
      tcr |-> [sshift |-> FALSE, dcyc |-> 0, dhqc |-> FALSE],
      hlcr |-> [trwr |-> 0, tacc |-> 0, wzl |-> FALSE, lm |-> FALSE] ]

\* regs.cr.write(|w| w.en().clear_bit()): the reset value with EN clear
CrEnSet == [OspiReset.cr EXCEPT !.en = TRUE]
CrEnClear == [OspiReset.cr EXCEPT !.en = FALSE]

AllFlags == {"tof", "smf", "tcf", "tef"}

\* the program stops at a panic
ORunning == panic.msg = "none"

\* one thread of control: a function starts when no other is running
Idle == ORunning /\ opc = "idle" /\ \A c \in DOMAIN pc : pc[c] = "idle"

\* a method taking `self` by value moves the token out of the caller's hands
Copied(n) == n
Moved(n) == n - 1

\* a method returning a token hands the caller one token
Returned(n) == n + 1

OPanicAt(msg, at) ==
    /\ panic' = [msg |-> msg, at |-> at]
    /\ opc' = "panic"

(***************************************************************************)
(* OCTOSPI: Octospi::$name, the SPI configure path (octospi.rs 424-517).   *)
(* One action per statement; the busy-wait loop spins by stuttering.       *)
(***************************************************************************)
OStep(from, to) == opc = from /\ ORunning /\ opc' = to

\* prec.enable(); regs.cr.write(|w| w.en().clear_bit()); kernel_clk_unwrap
SpiDisable ==
    /\ otok = "Peripheral" /\ Idle /\ live.ospi >= 1
    /\ \E inst \in Instances, k \in KernelClocks, c \in SpiConfigs :
          oarg' = [kind |-> "spi", inst |-> inst, spi_kernel_ck |-> k,
                   config |-> c]
    /\ ospi' = [ospi EXCEPT !.cr = CrEnClear]
    /\ wlog' = <<"cr.en=0">>
    /\ opc' = "spi_busy"
    /\ oloc' = NoLoc
    /\ UNCHANGED <<overflow_checks, panic, hw_busy, otok, mem, dvars>>
    /\ live' = [live EXCEPT !.ospi = Moved(@)]

\* while regs.sr.read().busy().bit_is_set() {}
SpiSkipBusyWait ==
    /\ OStep("spi_busy", "spi_fcr")
    /\ UNCHANGED <<overflow_checks, panic, ospi, hw_busy, otok, oarg, oloc,
                   wlog, mem, dvars, live>>
SpiWaitNotBusy ==
    /\ OStep("spi_busy", "spi_fcr")
    /\ ~hw_busy
    /\ wlog' = Append(wlog, "busy=0")
    /\ UNCHANGED <<overflow_checks, panic, ospi, hw_busy, otok, oarg, oloc,
                   mem, dvars>>
    /\ UNCHANGED live

\* regs.fcr.write(ctof, csmf, ctcf, ctef)
SpiClearFlags ==
    /\ OStep("spi_fcr", "spi_cr")
    /\ ospi' = [ospi EXCEPT !.flags = @ \ AllFlags]
    /\ wlog' = Append(wlog, "fcr")
    /\ UNCHANGED <<overflow_checks, panic, hw_busy, otok, oarg, oloc, mem,
                   dvars>>
    /\ UNCHANGED live

\* regs.cr.write(fmode 0, fthres config.fifo_threshold - 1)
SpiWriteCr ==
    /\ OStep("spi_cr", "spi_dcr1")
    /\ ospi' = [ospi EXCEPT !.cr = [OspiReset.cr EXCEPT
                   !.fmode = 0, !.fthres = oarg.config.fifo_threshold - 1]]
    /\ wlog' = Append(wlog, "cr")
    /\ UNCHANGED <<overflow_checks, panic, hw_busy, otok, oarg, oloc, mem,
                   dvars>>
    /\ UNCHANGED live

\* regs.dcr1.write(mtyp 2, devsize 0x1F)
SpiWriteDcr1 ==
    /\ OStep("spi_dcr1", "spi_ccr")
    /\ ospi' = [ospi EXCEPT !.dcr1 = [OspiReset.dcr1 EXCEPT
                   !.mtyp = 2, !.devsize = 31]]
    /\ wlog' = Append(wlog, "dcr1")
    /\ UNCHANGED <<overflow_checks, panic, hw_busy, otok, oarg, oloc, mem,
                   dvars>>
    /\ UNCHANGED live

\* regs.ccr.write(dmode, admode = config.mode.reg_value(), adsize 0, imode 0)
SpiWriteCcr ==
    /\ OStep("spi_ccr", "spi_prescaler")
    /\ ospi' = [ospi EXCEPT !.ccr = [OspiReset.ccr EXCEPT
                   !.dmode = oarg.config.mode_reg_value,
                   !.admode = oarg.config.mode_reg_value,
                   !.adsize = 0, !.imode = 0]]
    /\ wlog' = Append(wlog, "ccr")
    /\ UNCHANGED <<overflow_checks, panic, hw_busy, otok, oarg, oloc, mem,
                   dvars>>
    /\ UNCHANGED live

\* let divisor = match ... ; regs.dcr2.write(prescaler divisor as u8)
SpiPrescaler ==
    /\ opc = "spi_prescaler" /\ ORunning
    /\ LET d == SpiDivisor(overflow_checks, oarg.spi_kernel_ck,
                           oarg.config.frequency)
       IN  IF d.panic # "none"
           THEN /\ OPanicAt(d.panic, "spi_prescaler")
                /\ UNCHANGED <<ospi, oloc, wlog>>
           ELSE /\ opc' = "spi_tcr"
                /\ oloc' = [oloc EXCEPT !.divisor = d.val]
                /\ ospi' = [ospi EXCEPT !.dcr2 = [OspiReset.dcr2 EXCEPT
                               !.prescaler = AsU8(d.val)]]
                /\ wlog' = Append(wlog, "dcr2")
                /\ UNCHANGED panic
    /\ UNCHANGED <<overflow_checks, hw_busy, otok, oarg, mem, dvars>>
    /\ UNCHANGED live

\* regs.tcr.write(sshift, dcyc)
SpiWriteTcr ==
    /\ OStep("spi_tcr", "spi_en")
    /\ ospi' = [ospi EXCEPT !.tcr = [OspiReset.tcr EXCEPT
                   !.sshift = oarg.config.sampling_falling,
                   !.dcyc = oarg.config.dummy_cycles]]
    /\ wlog' = Append(wlog, "tcr")
    /\ UNCHANGED <<overflow_checks, panic, hw_busy, otok, oarg, oloc, mem,
                   dvars>>
    /\ UNCHANGED live

\* regs.cr.modify(|_, w| w.en().set_bit()); Octospi { rb: regs, mode }
SpiEnable ==
    /\ OStep("spi_en", "idle")
    /\ ospi' = [ospi EXCEPT !.cr.en = TRUE]
    /\ wlog' = Append(wlog, "cr.en=1")
    /\ otok' = "Octospi"
    /\ UNCHANGED <<overflow_checks, panic, hw_busy, oarg, oloc, mem, dvars>>
    /\ live' = [live EXCEPT !.ospi = Returned(@)]

(***************************************************************************)
(* OCTOSPI: Octospi::$name_hyperbus, the Hyperbus configure path           *)
(* (octospi.rs 519-652)                                                    *)
(***************************************************************************)
\* prec.enable().reset(); regs.cr.write(|w| w.en().clear_bit()); kernel_clk_unwrap
HbDisable ==
    /\ otok = "Peripheral" /\ Idle /\ live.ospi >= 1
    /\ \E inst \in Instances, k \in KernelClocks, c \in HyperbusConfigs :
          oarg' = [kind |-> "hyperbus", inst |-> inst, spi_kernel_ck |-> k,
                   config |-> c]
    /\ ospi' = [OspiReset EXCEPT !.cr = CrEnClear]
    /\ wlog' = <<"cr.en=0">>
    /\ opc' = "hb_clock"
    /\ oloc' = NoLoc
    /\ UNCHANGED <<overflow_checks, panic, hw_busy, otok, mem, dvars>>
    /\ live' = [live EXCEPT !.ospi = Moved(@)]

\* let divisor = match ...; let frequency = ...; let period_ns = ...
HbClock ==
    /\ opc = "hb_clock" /\ ORunning
    /\ \E d \in {HyperbusDivisor(overflow_checks, oarg.spi_kernel_ck,
                                   oarg.config.frequency)} :
       \E fr \in {HyperbusFrequency(oarg.spi_kernel_ck, d.val)} :
           IF d.panic # "none"
           THEN OPanicAt(d.panic, "hb_clock") /\ UNCHANGED oloc
           ELSE IF fr.panic # "none"
           THEN OPanicAt(fr.panic, "hb_clock")
                /\ oloc' = [oloc EXCEPT !.divisor = d.val]
           ELSE /\ opc' = "hb_busy"
                /\ oloc' = [oloc EXCEPT
                      !.divisor = d.val,
                      !.frequency = fr.val,
                      !.period_ns = PeriodNs(d.val, oarg.spi_kernel_ck)]
                /\ UNCHANGED panic
    /\ UNCHANGED <<overflow_checks, ospi, hw_busy, otok, oarg, wlog, mem,
                   dvars>>
    /\ UNCHANGED live

\* while regs.sr.read().busy().bit_is_set() {}
HbWaitNotBusy ==
    /\ OStep("hb_busy", "hb_fcr")
    /\ ~hw_busy
    /\ wlog' = Append(wlog, "busy=0")
    /\ UNCHANGED <<overflow_checks, panic, ospi, hw_busy, otok, oarg, oloc,
                   mem, dvars>>
    /\ UNCHANGED live

\* regs.fcr.write(ctof, csmf, ctcf, ctef)
HbClearFlags ==
    /\ OStep("hb_fcr", "hb_cr")
    /\ ospi' = [ospi EXCEPT !.flags = @ \ AllFlags]
    /\ wlog' = Append(wlog, "fcr")
    /\ UNCHANGED <<overflow_checks, panic, hw_busy, otok, oarg, oloc, mem,
                   dvars>>
    /\ UNCHANGED live

\* regs.cr.write(fmode 3, fthres 4 - 1)
HbWriteCr ==
    /\ OStep("hb_cr", "hb_dcr1")
    /\ ospi' = [ospi EXCEPT !.cr = [OspiReset.cr EXCEPT !.fmode = 3, !.fthres = 4 - 1]]
    /\ wlog' = Append(wlog, "cr")
    /\ UNCHANGED <<overflow_checks, panic, hw_busy, otok, oarg, oloc, mem,
                   dvars>>
    /\ UNCHANGED live

\* regs.dcr1.write(mtyp 4, devsize size_order, csht chip_select_high - 1)
HbWriteDcr1 ==
    /\ OStep("hb_dcr1", "hb_dcr2")
    /\ ospi' = [ospi EXCEPT !.dcr1 = [OspiReset.dcr1 EXCEPT
                   !.mtyp = 4, !.devsize = oarg.config.size_order,
                   !.csht = oarg.config.chip_select_high - 1]]
    /\ wlog' = Append(wlog, "dcr1")
    /\ UNCHANGED <<overflow_checks, panic, hw_busy, otok, oarg, oloc, mem,
                   dvars>>
    /\ UNCHANGED live

\* regs.dcr2.write(prescaler divisor - 1)
HbWriteDcr2 ==
    /\ OStep("hb_dcr2", "hb_dcr3")
    /\ ospi' = [ospi EXCEPT !.dcr2 = [OspiReset.dcr2 EXCEPT
                   !.prescaler = WInt(oloc.divisor) - 1]]
    /\ wlog' = Append(wlog, "dcr2")
    /\ UNCHANGED <<overflow_checks, panic, hw_busy, otok, oarg, oloc, mem,
                   dvars>>
    /\ UNCHANGED live

\* w.csbound().bits(hyperbus.size_order - 1): a 5-bit field
CsBoundIsOrder(size_order) == size_order % 2^5
CsBound(size_order) == (size_order - 1) % 2^5

\* regs.dcr3.write(csbound size_order - 1)
HbWriteDcr3 ==
    /\ OStep("hb_dcr3", "hb_refresh")
    /\ ospi' = [ospi EXCEPT !.dcr3 = [OspiReset.dcr3 EXCEPT
                   !.csbound = CsBound(oarg.config.size_order)]]
    /\ wlog' = Append(wlog, "dcr3")
    /\ UNCHANGED <<overflow_checks, panic, hw_busy, otok, oarg, oloc, mem,
                   dvars>>
    /\ UNCHANGED live

\* let refresh_cycles = ...; regs.dcr4.write(refresh refresh_cycles)
HbRefresh ==
    /\ opc = "hb_refresh" /\ ORunning
    /\ LET rc == RefreshCycles(overflow_checks, oarg.config.refresh_interval,
                               oloc.period_ns)
       IN  IF rc.panic # "none"
           THEN /\ OPanicAt(rc.panic, "hb_refresh")
                /\ UNCHANGED <<ospi, oloc, wlog>>
           ELSE /\ opc' = "hb_ccr"
                /\ oloc' = [oloc EXCEPT !.refresh_cycles = rc.val]
                /\ ospi' = [ospi EXCEPT !.dcr4 = [OspiReset.dcr4 EXCEPT
                               !.refresh = rc.val]]
                /\ wlog' = Append(wlog, "dcr4")
                /\ UNCHANGED panic
    /\ UNCHANGED <<overflow_checks, hw_busy, otok, oarg, mem, dvars>>
    /\ UNCHANGED live

\* regs.ccr.write(dqse, ddtr, dmode 4, adsize 3, addtr, admode 4)
HbWriteCcr ==
    /\ OStep("hb_ccr", "hb_wccr")
    /\ ospi' = [ospi EXCEPT !.ccr = [OspiReset.ccr EXCEPT
                   !.dqse = TRUE, !.ddtr = TRUE, !.dmode = 4, !.adsize = 3,
                   !.addtr = TRUE, !.admode = 4]]
    /\ wlog' = Append(wlog, "ccr")
    /\ UNCHANGED <<overflow_checks, panic, hw_busy, otok, oarg, oloc, mem,
                   dvars>>
    /\ UNCHANGED live

\* regs.wccr.write(dqse, ddtr, dmode 4, adsize 3, addtr, admode 4)
HbWriteWccr ==
    /\ OStep("hb_wccr", "hb_tcr")
    /\ ospi' = [ospi EXCEPT !.wccr = [OspiReset.wccr EXCEPT
                   !.dqse = TRUE, !.ddtr = TRUE, !.dmode = 4, !.adsize = 3,
                   !.addtr = TRUE, !.admode = 4]]
    /\ wlog' = Append(wlog, "wccr")
    /\ UNCHANGED <<overflow_checks, panic, hw_busy, otok, oarg, oloc, mem,
                   dvars>>
    /\ UNCHANGED live

\* a timing register that also shifts the sample point
HbTcrShifted == [OspiReset.tcr EXCEPT !.dhqc = TRUE, !.sshift = TRUE]

\* the value of regs.tcr.write(|w| w.dhqc().set_bit()): the reset value
\* with delay-hold-quarter-cycle set
HbTcr == [OspiReset.tcr EXCEPT !.dhqc = TRUE]

\* regs.tcr.write(|w| w.dhqc().set_bit())
HbWriteTcr ==
    /\ OStep("hb_tcr", "hb_hlcr")
    /\ ospi' = [ospi EXCEPT !.tcr = HbTcr]
    /\ wlog' = Append(wlog, "tcr")
    /\ UNCHANGED <<overflow_checks, panic, hw_busy, otok, oarg, oloc, mem,
                   dvars>>
    /\ UNCHANGED live

\* regs.hlcr.modify(trwr, tacc, wzl clear, lm set); Hyperbus { rb, frequency, refresh_cycles }
HbWriteHlcr ==
    /\ OStep("hb_hlcr", "idle")
    /\ ospi' = [ospi EXCEPT !.hlcr = [@ EXCEPT
                   !.trwr = oarg.config.read_write_recovery,
                   !.tacc = oarg.config.access_initial_latency,
                   !.wzl = FALSE, !.lm = TRUE]]
    /\ wlog' = Append(wlog, "hlcr")
    /\ otok' = "Hyperbus"
    /\ UNCHANGED <<overflow_checks, panic, hw_busy, oarg, oloc, mem, dvars>>
    /\ live' = [live EXCEPT !.ospi = Returned(@)]

(***************************************************************************)
(* OCTOSPI: Hyperbus::init (octospi.rs 685-702)                            *)
(***************************************************************************)
\* self.rb.cr.modify(|_, w| w.en().set_bit())
InitEnable ==
    /\ otok = "Hyperbus" /\ Idle /\ live.ospi >= 1
    /\ opc' = "init_busy1"
    /\ ospi' = [ospi EXCEPT !.cr.en = TRUE]
    /\ wlog' = <<"cr.en=1">>
    /\ UNCHANGED <<overflow_checks, panic, hw_busy, otok, oarg, oloc, mem,
                   dvars>>
    /\ live' = [live EXCEPT !.ospi = Moved(@)]

\* while self.rb.sr.read().busy().bit_is_set() {}
InitWaitNotBusy1 ==
    /\ OStep("init_busy1", "init_fmode")
    /\ ~hw_busy
    /\ wlog' = Append(wlog, "busy=0")
    /\ UNCHANGED <<overflow_checks, panic, ospi, hw_busy, otok, oarg, oloc,
                   mem, dvars>>
    /\ UNCHANGED live

\* self.rb.cr.modify(|_, w| w.fmode().bits(3))
InitFmode ==
    /\ OStep("init_fmode", "init_busy2")
    /\ ospi' = [ospi EXCEPT !.cr.fmode = 3]
    /\ wlog' = Append(wlog, "cr.fmode")
    /\ UNCHANGED <<overflow_checks, panic, hw_busy, otok, oarg, oloc, mem,
                   dvars>>
    /\ UNCHANGED live

\* while self.rb.sr.read().busy().bit_is_set() {}; $memaddr as *mut u32
\* an init whose second wait gives up: the address is returned although
\* BUSY is still set
InitReturnsWhileBusy ==
    /\ OStep("init_busy2", "idle")
    /\ wlog' = Append(wlog, "busy=0")
    /\ otok' = "MemoryMapped"
    /\ mem' = MemAddr(oarg.inst)
    /\ UNCHANGED <<overflow_checks, panic, ospi, hw_busy, oarg, oloc, dvars>>
    /\ UNCHANGED live

InitWaitNotBusy2 ==
    /\ OStep("init_busy2", "idle")
    /\ ~hw_busy
    /\ wlog' = Append(wlog, "busy=0")
    /\ otok' = "MemoryMapped"
    /\ mem' = MemAddr(oarg.inst)
    /\ UNCHANGED <<overflow_checks, panic, ospi, hw_busy, oarg, oloc, dvars>>
    /\ UNCHANGED live

(***************************************************************************)
(* OCTOSPI hardware: BUSY falls when the controller has gone idle; in      *)
(* memory-mapped mode an access raises it again.                           *)
(***************************************************************************)
HwBusy ==
    /\ hw_busy' \in BOOLEAN
    /\ hw_busy' # hw_busy
    /\ hw_busy' => (ospi.cr.en /\ ospi.cr.fmode = 3)
    /\ UNCHANGED <<overflow_checks, panic, ospi, otok, opc, oarg, oloc, wlog,
                   mem, dvars>>
    /\ UNCHANGED live

(***************************************************************************)
(* DAC (dac.rs): the two channels C1, C2 of DAC1                           *)
(***************************************************************************)
Channels == {1, 2}

EDStates == {"Disabled", "Enabled", "EnabledUnbuffered"}

\* impl HalDisabledDac for $CX<$DAC, Disabled>: enable, enable_unbuffered
HalDisabledDacAnyED(ed) == ed \in EDStates
HalDisabledDacImpl(ed) == ed = "Disabled"

\* impl<ED> HalDac for $CX<$DAC, ED>: calibrate_buffer, disable
HalDacImpl(ed) == ed \in EDStates

\* the return types: enable -> Enabled, enable_unbuffered -> EnabledUnbuffered,
\* calibrate_buffer and disable -> Disabled
EnableReturns == "Enabled"
EnableUnbufferedReturnsEnabled == "Enabled"
EnableUnbufferedReturns == "EnabledUnbuffered"
CalibrateReturnsSelf(ed) == ed
CalibrateReturns(ed) == "Disabled"
DisableReturnsSelf(ed) == ed
DisableReturns(ed) == "Disabled"

\* w.$trim().bits(trim): the field keeps the low 5 bits
OtrimAccumulated(old, t) == (old + t) % 2^5
OtrimBits(old, t) == t % 2^5

\* the trim values at which the modelled hardware may raise CAL_FLAG
CalTrims == {0, 33}

\* dac.sr.read().$cal_flag().bit(): what the read may return at this trim
CalFlagReads(t) == IF t \in CalTrims THEN BOOLEAN ELSE {FALSE}

\* the factory trim CCR may hold after reset
FactoryTrims == {16}

\* no `modify` of the channel's call site is between its read and its write
NoRead == [reg |-> "none", val |-> <<>>]

CalLabels == {"cal_mcr", "cal_cen", "cal_trim", "cal_delay", "cal_flag",
              "cal_end"}

DRegs(ch) == [en |-> dac.cr[ch].en, cen |-> dac.cr[ch].cen,
              mode |-> dac.mcr[ch], otrim |-> dac.ccr[ch]]

\* the lifecycle methods touch no OCTOSPI state and return no value; run from
\* one call site, each `modify` is a single step
DUnchangedO == UNCHANGED <<overflow_checks, ovars, rd, got>>

\* enable: dac.mcr.modify(|_, w| w.$mode().bits(0))
EnableMcr(ch) ==
    /\ Idle /\ live.c[ch] >= 1 /\ HalDisabledDacImpl(token[ch])
    /\ dac' = [dac EXCEPT !.mcr[ch] = 0]
    /\ pc' = [pc EXCEPT ![ch] = "enable_cr"]
    /\ calhist' = [calhist EXCEPT ![ch] = <<>>]
    /\ UNCHANGED <<panic, token, trim>> /\ DUnchangedO
    /\ live' = [live EXCEPT !.c[ch] = Moved(@)]

\* enable: dac.cr.modify(|_, w| w.$en().set_bit()); $CX<$DAC, Enabled>
EnableCr(ch) ==
    /\ pc[ch] = "enable_cr"
    /\ dac' = [dac EXCEPT !.cr[ch].en = TRUE]
    /\ token' = [token EXCEPT ![ch] = EnableReturns]
    /\ pc' = [pc EXCEPT ![ch] = "idle"]
    /\ UNCHANGED <<panic, trim, calhist>> /\ DUnchangedO
    /\ live' = [live EXCEPT !.c[ch] = Returned(@)]

\* enable_unbuffered: dac.mcr.modify(|_, w| w.$mode().bits(2))
EnableUnbufferedMcr(ch) ==
    /\ Idle /\ live.c[ch] >= 1 /\ HalDisabledDacImpl(token[ch])
    /\ dac' = [dac EXCEPT !.mcr[ch] = 2]
    /\ pc' = [pc EXCEPT ![ch] = "enable_unbuffered_cr"]
    /\ calhist' = [calhist EXCEPT ![ch] = <<>>]
    /\ UNCHANGED <<panic, token, trim>> /\ DUnchangedO
    /\ live' = [live EXCEPT !.c[ch] = Moved(@)]

\* enable_unbuffered: dac.cr.modify(|_, w| w.$en().set_bit())
EnableUnbufferedCr(ch) ==
    /\ pc[ch] = "enable_unbuffered_cr"
    /\ dac' = [dac EXCEPT !.cr[ch].en = TRUE]
    /\ token' = [token EXCEPT ![ch] = EnableUnbufferedReturns]
    /\ pc' = [pc EXCEPT ![ch] = "idle"]
    /\ UNCHANGED <<panic, trim, calhist>> /\ DUnchangedO
    /\ live' = [live EXCEPT !.c[ch] = Returned(@)]

\* disable: dac.cr.modify(|_, w| w.$en().clear_bit()); $CX<$DAC, Disabled>
Disable(ch) ==
    /\ Idle /\ live.c[ch] >= 1 /\ HalDacImpl(token[ch])
    /\ dac' = [dac EXCEPT !.cr[ch].en = FALSE]
    /\ token' = [token EXCEPT ![ch] = DisableReturns(token[ch])]
    /\ calhist' = [calhist EXCEPT ![ch] = <<>>]
    /\ UNCHANGED <<panic, pc, trim>> /\ DUnchangedO
    /\ live' = [live EXCEPT !.c[ch] = Returned(Moved(@))]

\* calibrate_buffer: dac.cr.modify(|_, w| w.$en().clear_bit())
CalibrateDisable(ch) ==
    /\ Idle /\ live.c[ch] >= 1 /\ HalDacImpl(token[ch])
    /\ dac' = [dac EXCEPT !.cr[ch].en = FALSE]
    /\ pc' = [pc EXCEPT ![ch] = "cal_mcr"]
    /\ UNCHANGED <<panic, token, trim, calhist>> /\ DUnchangedO
    /\ live' = [live EXCEPT !.c[ch] = Moved(@)]

\* calibrate_buffer: dac.mcr.modify(|_, w| w.$mode().bits(0))
CalibrateMcr(ch) ==
    /\ pc[ch] = "cal_mcr"
    /\ dac' = [dac EXCEPT !.mcr[ch] = 0]
    /\ pc' = [pc EXCEPT ![ch] = "cal_cen"]
    /\ UNCHANGED <<panic, token, trim, calhist>> /\ DUnchangedO
    /\ UNCHANGED live

\* calibrate_buffer: dac.cr.modify(|_, w| w.$cen().set_bit()); let mut trim = 0
CalibrateCen(ch) ==
    /\ pc[ch] = "cal_cen"
    /\ dac' = [dac EXCEPT !.cr[ch].cen = TRUE]
    /\ trim' = [trim EXCEPT ![ch] = 0]
    /\ pc' = [pc EXCEPT ![ch] = "cal_trim"]
    /\ UNCHANGED <<panic, token, calhist>> /\ DUnchangedO
    /\ UNCHANGED live

\* loop: dac.ccr.modify(|_, w| w.$trim().bits(trim))
CalibrateTrim(ch) ==
    /\ pc[ch] = "cal_trim"
    /\ dac' = [dac EXCEPT !.ccr[ch] = OtrimBits(dac.ccr[ch], trim[ch])]
    /\ pc' = [pc EXCEPT ![ch] = "cal_delay"]
    /\ UNCHANGED <<panic, token, trim, calhist>> /\ DUnchangedO
    /\ UNCHANGED live

\* loop: delay.delay_us(64_u32)
CalibrateDelay(ch) ==
    /\ pc[ch] = "cal_delay"
    /\ pc' = [pc EXCEPT ![ch] = "cal_flag"]
    /\ UNCHANGED <<panic, dac, token, trim, calhist>> /\ DUnchangedO
    /\ UNCHANGED live

\* loop: if dac.sr.read().$cal_flag().bit() { break; } trim += 1 (a u8)
CalibrateFlag(ch) ==
    /\ pc[ch] = "cal_flag"
    /\ \E flag \in CalFlagReads(trim[ch]) :
          IF flag
          THEN /\ pc' = [pc EXCEPT ![ch] = "cal_end"]
               /\ UNCHANGED <<trim, panic>>
          ELSE IF trim[ch] + 1 < 2^8
          THEN /\ trim' = [trim EXCEPT ![ch] = trim[ch] + 1]
               /\ pc' = [pc EXCEPT ![ch] = "cal_trim"]
               /\ UNCHANGED panic
          ELSE IF overflow_checks
          THEN /\ panic' = [msg |-> "overflow", at |-> "cal_flag"]
               /\ pc' = [pc EXCEPT ![ch] = "panic"]
               /\ UNCHANGED trim
          ELSE /\ trim' = [trim EXCEPT ![ch] = 0]
               /\ pc' = [pc EXCEPT ![ch] = "cal_trim"]
               /\ UNCHANGED panic
    /\ UNCHANGED <<dac, token, calhist>> /\ DUnchangedO
    /\ UNCHANGED live

\* calibrate_buffer: dac.cr.modify(|_, w| w.$cen().clear_bit()); $CX<$DAC, Disabled>
CalibrateEnd(ch) ==
    /\ pc[ch] = "cal_end"
    /\ dac' = [dac EXCEPT !.cr[ch].cen = FALSE]
    /\ token' = [token EXCEPT ![ch] = CalibrateReturns(token[ch])]
    /\ pc' = [pc EXCEPT ![ch] = "idle"]
    /\ LET done == [from |-> token[ch], at |-> trim[ch],
                    tok |-> token'[ch],
                    regs |-> [en |-> dac'.cr[ch].en, cen |-> dac'.cr[ch].cen,
                              mode |-> dac'.mcr[ch], otrim |-> dac'.ccr[ch]]]
       IN  calhist' = [calhist EXCEPT ![ch] =
               IF @ = <<>> THEN <<done>> ELSE <<@[Len(@)], done>>]
    /\ trim' = [trim EXCEPT ![ch] = 0]
    /\ UNCHANGED panic /\ DUnchangedO
    /\ live' = [live EXCEPT !.c[ch] = Returned(@)]

(***************************************************************************)
(* DAC: impl<ED> DacOut<u16> for $CX<$DAC, ED> (dac.rs 196-207)            *)
(***************************************************************************)
\* the u16 values passed to set_value
Values == {0, 1, 4095, 65535}

\* impl<ED> DacOut<u16>: set_value and get_value exist for every ED
DacOutImpl(ed) == ed \in EDStates

\* dac.$dhrx.write(|w| w.bits(val as u32)): DHR12Rx keeps the low 12 bits
DhrWriteBoth(d, ch, val) == [d EXCEPT !.dhr = [c \in Channels |-> val % 2^12]]
DhrWrite(d, ch, val) == [d EXCEPT !.dhr[ch] = val % 2^12]

\* set_value(&mut self, val)
SetValue(ch) ==
    /\ Idle /\ live.c[ch] >= 1 /\ DacOutImpl(token[ch])
    /\ \E val \in Values : dac' = DhrWrite(dac, ch, val)
    /\ UNCHANGED <<overflow_checks, panic, ovars, token, pc, trim, calhist,
                   rd, got, live>>

\* get_value(&mut self) -> u16: dac.$dor.read().bits() as u16
GetValue(ch) ==
    /\ Idle /\ live.c[ch] >= 1 /\ DacOutImpl(token[ch])
    /\ got' = [got EXCEPT ![ch] = dac.dor[ch] % 2^16]
    /\ UNCHANGED <<overflow_checks, panic, ovars, dac, token, pc, trim,
                   calhist, rd, live>>

\* hardware: the holding register is loaded into the output register
HwLoadDor(ch) ==
    /\ dac.dor[ch] # dac.dhr[ch]
    /\ dac' = [dac EXCEPT !.dor[ch] = dac.dhr[ch]]
    /\ UNCHANGED <<overflow_checks, panic, ovars, token, pc, trim, calhist,
                   rd, got, live>>

(***************************************************************************)
(* DAC: the two channel tokens held by two call sites that run at the same *)
(* time (the tokens are Send: one may live in an interrupt handler).  CR,  *)
(* MCR and CCR each hold the fields of both channels, and `modify` is a    *)
(* read of the whole register followed by a write of the whole register.   *)
(***************************************************************************)
\* the flag asserts at the latest at this trim value while two sites run
MaxSharedTrim == 1

Methods(ed) ==
    (IF HalDisabledDacImpl(ed) THEN {"enable", "enable_unbuffered"} ELSE {})
    \cup (IF HalDacImpl(ed) THEN {"calibrate_buffer", "disable"} ELSE {})

\* the first `modify` of each method
FirstLabel(method) ==
    CASE method = "enable" -> "enable_mcr"
      [] method = "enable_unbuffered" -> "enable_unbuffered_mcr"
      [] method = "calibrate_buffer" -> "cal_en"
      [] method = "disable" -> "disable_cr"

ModifyLabels == {"enable_mcr", "enable_cr", "enable_unbuffered_mcr",
                 "enable_unbuffered_cr", "disable_cr", "cal_en", "cal_mcr",
                 "cal_cen", "cal_trim", "cal_end"}

\* the register the `modify` at this position reads and writes
ModifyReg(label) ==
    IF label \in {"enable_mcr", "enable_unbuffered_mcr", "cal_mcr"} THEN "mcr"
    ELSE IF label = "cal_trim" THEN "ccr"
    ELSE "cr"

\* the value it writes: the value read, with the field of its channel changed
ModifyValue(label, v, ch, t) ==
    CASE label \in {"enable_mcr", "cal_mcr"} -> [v EXCEPT ![ch] = 0]
      [] label = "enable_unbuffered_mcr" -> [v EXCEPT ![ch] = 2]
      [] label \in {"enable_cr", "enable_unbuffered_cr"} ->
             [v EXCEPT ![ch].en = TRUE]
      [] label \in {"disable_cr", "cal_en"} -> [v EXCEPT ![ch].en = FALSE]
      [] label = "cal_cen" -> [v EXCEPT ![ch].cen = TRUE]
      [] label = "cal_end" -> [v EXCEPT ![ch].cen = FALSE]
      [] label = "cal_trim" -> [v EXCEPT ![ch] = OtrimBits(v[ch], t)]

\* the statement that follows it; "idle" when the method returns
ModifyNext(label) ==
    CASE label = "enable_mcr" -> "enable_cr"
      [] label = "enable_unbuffered_mcr" -> "enable_unbuffered_cr"
      [] label = "cal_en" -> "cal_mcr"
      [] label = "cal_mcr" -> "cal_cen"
      [] label = "cal_cen" -> "cal_trim"
      [] label = "cal_trim" -> "cal_delay"
      [] OTHER -> "idle"

\* the token the method returns after its last `modify`
ModifyReturns(label, ed) ==
    CASE label = "enable_cr" -> EnableReturns
      [] label = "enable_unbuffered_cr" -> EnableUnbufferedReturns
      [] label = "disable_cr" -> DisableReturns(ed)
      [] label = "cal_end" -> CalibrateReturns(ed)

\* a call site calls a method its token has
SharedCall(ch) ==
    /\ pc[ch] = "idle" /\ ORunning /\ live.c[ch] >= 1
    /\ \E method \in Methods(token[ch]) :
          pc' = [pc EXCEPT ![ch] = FirstLabel(method)]
    /\ live' = [live EXCEPT !.c[ch] = Moved(@)]
    /\ UNCHANGED <<panic, dac, token, trim, calhist>> /\ DUnchangedO

\* modify: the read of the register
ModifyRead(ch) ==
    /\ pc[ch] \in ModifyLabels /\ rd[ch].reg = "none"
    /\ rd' = [rd EXCEPT ![ch] = [reg |-> ModifyReg(pc[ch]),
                                  val |-> dac[ModifyReg(pc[ch])]]]
    /\ UNCHANGED <<overflow_checks, panic, ovars, dac, token, pc, trim,
                   calhist, got, live>>

\* modify: the write of the register, and what follows in the method
ModifyWrite(ch) ==
    /\ pc[ch] \in ModifyLabels /\ rd[ch].reg = ModifyReg(pc[ch])
    /\ dac' = [dac EXCEPT ![rd[ch].reg] =
                  ModifyValue(pc[ch], rd[ch].val, ch, trim[ch])]
    /\ rd' = [rd EXCEPT ![ch] = NoRead]
    /\ pc' = [pc EXCEPT ![ch] = ModifyNext(pc[ch])]
    /\ trim' = IF pc[ch] \in {"cal_cen", "cal_end"}
               THEN [trim EXCEPT ![ch] = 0] ELSE trim
    /\ IF ModifyNext(pc[ch]) = "idle"
       THEN /\ token' = [token EXCEPT ![ch] = ModifyReturns(pc[ch], token[ch])]
            /\ live' = [live EXCEPT !.c[ch] = Returned(@)]
       ELSE UNCHANGED <<token, live>>
    /\ UNCHANGED <<overflow_checks, panic, ovars, calhist, got>>

\* loop: if dac.sr.read().$cal_flag().bit() { break; } trim += 1
SharedFlag(ch) ==
    /\ pc[ch] = "cal_flag"
    /\ \E flag \in (IF trim[ch] < MaxSharedTrim THEN BOOLEAN ELSE {TRUE}) :
          IF flag
          THEN pc' = [pc EXCEPT ![ch] = "cal_end"] /\ UNCHANGED trim
          ELSE /\ trim' = [trim EXCEPT ![ch] = trim[ch] + 1]
               /\ pc' = [pc EXCEPT ![ch] = "cal_trim"]
    /\ UNCHANGED <<panic, dac, token, calhist, live>> /\ DUnchangedO

(***************************************************************************)
(* Specifications.  Both start from the state after reset with the         *)
(* peripherals claimed: the OCTOSPI register block is owned raw, both DAC  *)
(* channel tokens are Disabled (dac() returns $CX<DAC1, Disabled>).  The    *)
(* OCTOSPI may have been left enabled by whoever used it before.           *)
(***************************************************************************)
Init ==
    /\ overflow_checks \in BOOLEAN
    /\ panic = NoPanic
    /\ \E e \in BOOLEAN : ospi = [OspiReset EXCEPT !.cr.en = e]
    /\ hw_busy \in BOOLEAN
    /\ otok = "Peripheral"
    /\ opc = "idle"
    /\ oarg = NoArg
    /\ oloc = NoLoc
    /\ wlog = <<>>
    /\ mem = WZero
    /\ \E t \in FactoryTrims :
          dac = [cr |-> [c \in Channels |-> [en |-> FALSE, cen |-> FALSE]],
                 mcr |-> [c \in Channels |-> 0],
                 ccr |-> [c \in Channels |-> t],
                 dhr |-> [c \in Channels |-> 0],
                 dor |-> [c \in Channels |-> 0]]
    /\ token = [c \in Channels |-> "Disabled"]
    /\ pc = [c \in Channels |-> "idle"]
    /\ trim = [c \in Channels |-> 0]
    /\ calhist = [c \in Channels |-> <<>>]
    /\ rd = [c \in Channels |-> NoRead]
    /\ got = [c \in Channels |-> 0]
    /\ live = [ospi |-> 1, c |-> [c \in Channels |-> 1]]

OctospiNext ==
    \/ SpiDisable \/ SpiWaitNotBusy \/ SpiClearFlags \/ SpiWriteCr
    \/ SpiWriteDcr1 \/ SpiWriteCcr \/ SpiPrescaler \/ SpiWriteTcr \/ SpiEnable
    \/ HbDisable \/ HbClock \/ HbWaitNotBusy \/ HbClearFlags \/ HbWriteCr
    \/ HbWriteDcr1 \/ HbWriteDcr2 \/ HbWriteDcr3 \/ HbRefresh \/ HbWriteCcr
    \/ HbWriteWccr \/ HbWriteTcr \/ HbWriteHlcr
    \/ InitEnable \/ InitWaitNotBusy1 \/ InitFmode \/ InitWaitNotBusy2
    \/ HwBusy

DacNext ==
    \E ch \in Channels :
        \/ EnableMcr(ch) \/ EnableCr(ch)
        \/ EnableUnbufferedMcr(ch) \/ EnableUnbufferedCr(ch)
        \/ Disable(ch)
        \/ CalibrateDisable(ch) \/ CalibrateMcr(ch) \/ CalibrateCen(ch)
        \/ CalibrateTrim(ch) \/ CalibrateDelay(ch) \/ CalibrateFlag(ch)
        \/ CalibrateEnd(ch)

\* the output value and the methods that enable and disable the channel
DacOutNext ==
    \E ch \in Channels :
        \/ SetValue(ch) \/ GetValue(ch) \/ HwLoadDor(ch)
        \/ EnableMcr(ch) \/ EnableCr(ch)
        \/ EnableUnbufferedMcr(ch) \/ EnableUnbufferedCr(ch)
        \/ Disable(ch)

DacSharedNext ==
    \E ch \in Channels :
        \/ SharedCall(ch) \/ ModifyRead(ch) \/ ModifyWrite(ch)
        \/ CalibrateDelay(ch) \/ SharedFlag(ch)

SpecOctospi == Init /\ [][OctospiNext]_vars

\* the steps of a call that has begun: everything but the three entries
\* (SpiDisable, HbDisable, InitEnable) and the hardware
OctospiStep ==
    \/ SpiWaitNotBusy \/ SpiClearFlags \/ SpiWriteCr \/ SpiWriteDcr1
    \/ SpiWriteCcr \/ SpiPrescaler \/ SpiWriteTcr \/ SpiEnable
    \/ HbClock \/ HbWaitNotBusy \/ HbClearFlags \/ HbWriteCr \/ HbWriteDcr1
    \/ HbWriteDcr2 \/ HbWriteDcr3 \/ HbRefresh \/ HbWriteCcr \/ HbWriteWccr
    \/ HbWriteTcr \/ HbWriteHlcr
    \/ InitWaitNotBusy1 \/ InitFmode \/ InitWaitNotBusy2

\* The processor keeps executing a call that has begun: a statement that
\* stays executable is executed, and a `while busy {}` loop that keeps
\* reading BUSY clear is left.  Nothing obliges the caller to begin a call
\* or the hardware to clear BUSY.
SpecOctospiFair == SpecOctospi /\ WF_vars(OctospiStep)

\* the DAC driver does not touch the OCTOSPI: its hardware stays idle
DacInit == Init /\ ~hw_busy /\ ospi = OspiReset

SpecDac == DacInit /\ [][DacNext]_vars

SpecDacOut == DacInit /\ [][DacOutNext]_vars

SpecDacShared == DacInit /\ [][DacSharedNext]_vars

Next == OctospiNext \/ DacNext \/ DacOutNext \/ DacSharedNext

Spec == Init /\ [][Next]_vars

(***************************************************************************)
(* Exact arithmetic for the statements below (not the code's arithmetic)   *)
(***************************************************************************)
\* a mod b for a, b < 2^32 and b # 0
WMod(a, b) ==
    IF ~WSmall(b) THEN (IF WLeq(b, a) THEN WSub(a, b) ELSE a)
    ELSE IF WSmall(a) THEN W(WInt(a) % WInt(b))
    ELSE LET d == WInt(b)
             r1 == (a[1] * 2^15 + (a[2] \div 2)) % d
             t == WAdd(WAdd(W(r1), W(r1)), <<0, a[2] % 2>>)
         IN  IF WLeq(b, t) THEN WSub(t, b) ELSE t

\* ceil(k / f) over the naturals, for f >= 1
CeilExact(k, f) ==
    IF k = WZero THEN WZero ELSE WAdd(WDiv(WSub(k, WOne), f), WOne)

\* floor(c * x / p) over the naturals and whether the division is exact,
\* for x, p < 2^32, p >= 1 and a factor 1 <= c <= 1000
FloorScaled(x, c, p) ==
    LET qx == WDiv(x, p)
        y == WMul(WMod(x, p), c)
        q2 == CHOOSE q \in 0..(c - 1) :
                  WLeq(WMul(p, q), y) /\ WLess(y, WMul(p, q + 1))
    IN  [floor |-> WAdd(WMul(qx, c), W(q2)), exact |-> y = WMul(p, q2)]

\* floor(1e9 * d / k)
ExactPeriodNs(d, k) == FloorScaled(W(10^9), WInt(d), k).floor

\* ceil(1000 * r / p)
ExactRefresh(r, p) ==
    LET fs == FloorScaled(r, 1000, p) IN
    IF fs.exact THEN fs.floor ELSE WAdd(fs.floor, WOne)

(***************************************************************************)
(* Statements about the timing computations, under SpecOctospi             *)
(***************************************************************************)
OKind(kind) == oarg.kind = kind

\* the statement that computes the divisor has been executed
DivisorDone ==
    \/ OKind("spi") /\ opc \in {"spi_tcr", "spi_en", "idle", "panic"}
    \/ OKind("hyperbus") /\ opc # "hb_clock"

DivisorFailed == panic.at \in {"spi_prescaler", "hb_clock"}

\* the quotient the path went on with: the SPI local holds quotient - 1
DivisorUsed ==
    IF OKind("spi") THEN WAdd(oloc.divisor, WOne) ELSE oloc.divisor

\* ceil(spi_kernel_ck / frequency) over the naturals
DivisorWanted == CeilExact(oarg.spi_kernel_ck, oarg.config.frequency)

FrequencyGiven == oarg.config.frequency # WZero

\* C1: for every kernel clock k and requested frequency f with
\* 1 <= ceil(k/f) <= 256, the divisor computation of both configure paths
\* succeeds with d = ceil(k/f), and the frequency the Hyperbus path records
\* is k / d and is at most f.
C1_DivisorInRangeSucceeds ==
    (DivisorDone /\ FrequencyGiven /\ InDivisorRange(DivisorWanted)) =>
        /\ ~DivisorFailed
        /\ DivisorUsed = DivisorWanted
        /\ OKind("hyperbus") =>
              /\ oloc.frequency = WDiv(oarg.spi_kernel_ck, DivisorWanted)
              /\ WLeq(oloc.frequency, oarg.config.frequency)

\* C2: for every k and f whose ceiling quotient is 0 or above 256, both
\* configure paths abort with the range error "Invalid OCTOSPI frequency
\* requested" and never write the prescaler field.
C2_OutOfRangeIsRangeError ==
    (DivisorDone /\ FrequencyGiven /\ ~InDivisorRange(DivisorWanted)) =>
        /\ DivisorFailed
        /\ panic.msg = RangeMsg
        /\ \A i \in 1..Len(wlog) : wlog[i] # "dcr2"

\* the Hyperbus path has executed the refresh statement
RefreshDone ==
    OKind("hyperbus") /\ opc \notin {"hb_clock", "hb_busy", "hb_fcr", "hb_cr",
        "hb_dcr1", "hb_dcr2", "hb_dcr3", "hb_refresh"}
    /\ ~DivisorFailed

RefreshFailed == panic.at = "hb_refresh"

\* C6: the value written to the refresh field is
\* ceil(1000 * refresh_interval / period_ns) with
\* period_ns = floor(1e9 * d / kernel_clock) and d the computed divisor.
C6_RefreshFromExactPeriod ==
    (RefreshDone /\ ExactPeriodNs(oloc.divisor, oarg.spi_kernel_ck) # WZero) =>
        /\ ~RefreshFailed
        /\ oloc.period_ns = ExactPeriodNs(oloc.divisor, oarg.spi_kernel_ck)
        /\ ospi.dcr4.refresh =
              ExactRefresh(oarg.config.refresh_interval,
                           ExactPeriodNs(oloc.divisor, oarg.spi_kernel_ck))

\* C7: with refresh_interval = 0 the Hyperbus path bypasses the refresh
\* computation (no division by period_ns is evaluated, so none can fail)
\* and the refresh field is left 0.
C7_ZeroIntervalBypasses ==
    (RefreshDone /\ oarg.config.refresh_interval = WZero) =>
        /\ ~RefreshFailed
        /\ ospi.dcr4.refresh = WZero

\* 2 * r fits a u32
DoubleRepresentable(r) == WFitsU32(WAdd(r, r))

\* C8: with clock and frequency fixed, for every refresh interval r whose
\* double is representable, the count computed for 2r is at least the
\* count computed for r.
C8_RefreshMonotonicOnDoubling ==
    (RefreshDone /\ ~RefreshFailed
       /\ DoubleRepresentable(oarg.config.refresh_interval)) =>
        LET r2 == WAdd(oarg.config.refresh_interval,
                       oarg.config.refresh_interval)
            c2 == RefreshCycles(overflow_checks, r2, oloc.period_ns)
        IN  c2.panic = "none" /\ WLeq(oloc.refresh_cycles, c2.val)

\* C10: every configure operation returns its token with the enable bit set.
C10_ConfigureReturnsEnabled ==
    (opc = "idle" /\ otok \in {"Octospi", "Hyperbus"}) => ospi.cr.en

\* C11: Hyperbus::init consumes the Hyperbus token; once the instance is
\* memory-mapped no operation of the bus controller runs on it again, its
\* registers keep the functional mode memory-mapped (3), and the address
\* returned is 0x9000_0000 for controller 1 and 0x7000_0000 for controller 2.
C11_MemoryMapTerminal ==
    [][/\ (opc = "idle" /\ opc' = "init_busy1") =>
             (otok = "Hyperbus" /\ live.ospi = 1 /\ live'.ospi = 0)
       /\ otok' = "MemoryMapped" =>
             /\ ospi'.cr.fmode = 3
             /\ live'.ospi = 0
             /\ opc' = "idle"
             /\ mem' = IF oarg'.inst = 1 THEN <<9 * 2^12, 0>>
                                         ELSE <<7 * 2^12, 0>>
       /\ otok = "MemoryMapped" =>
             (otok' = "MemoryMapped" /\ ospi' = ospi /\ mem' = mem
                /\ wlog' = wlog)]_vars

\* controller 2 is memory-mapped and an access has made it busy since
C11_Witness ==
    /\ otok = "MemoryMapped" /\ oarg.inst = 2 /\ mem = <<28672, 0>>
    /\ hw_busy /\ ospi.cr.en /\ opc = "idle"

\* C12: when a configure path fails with the frequency range error, the
\* enable bit of the bus controller is clear.
C12_RangeErrorLeavesDisabled ==
    panic.msg = RangeMsg => ~ospi.cr.en

\* the SPI path has failed with the range error after writing CR, DCR1, CCR
C12_Witness ==
    /\ panic.msg = RangeMsg /\ panic.at = "spi_prescaler"
    /\ wlog = <<"cr.en=0", "busy=0", "fcr", "cr", "dcr1", "ccr">>

\* C16: for every device size order in 5..26 the Hyperbus path writes the
\* order to the device-size field and order - 1 to the CS-boundary field
\* (24 gives 23), and the subtraction does not underflow.
C16_CsBoundIsOrderMinusOne ==
    (OKind("hyperbus") /\ opc \in {"hb_refresh", "hb_ccr", "hb_wccr", "hb_tcr",
                                    "hb_hlcr", "idle"}
       /\ oarg.config.size_order \in 5..26) =>
        /\ ospi.dcr1.devsize = oarg.config.size_order
        /\ ospi.dcr3.csbound + 1 = oarg.config.size_order
        /\ ospi.dcr3.csbound \in 4..25
        /\ oarg.config.size_order = 24 => ospi.dcr3.csbound = 23

\* the Hyperbus path has returned for a 16 MByte device
C16_Witness ==
    /\ otok = "Hyperbus" /\ opc = "idle" /\ oarg.config.size_order = 24
    /\ ospi.dcr3.csbound = 23 /\ ospi.dcr1.devsize = 24

\* the divisor computation has succeeded and the path went on with it
DivisorSucceeded == DivisorDone /\ ~DivisorFailed /\ FrequencyGiven

\* C17 as stated: the divisor is the smallest d >= 1 for which the integer
\* quotient k / d is at most f.
C17_DivisorIsSmallest ==
    DivisorSucceeded =>
        /\ WLeq(WDiv(oarg.spi_kernel_ck, DivisorUsed), oarg.config.frequency)
        /\ \A e \in 1..256 : WLess(W(e), DivisorUsed) =>
              ~WLeq(WDiv(oarg.spi_kernel_ck, W(e)), oarg.config.frequency)

\* C17 amended: the divisor is ceil(k/f), the smallest d >= 1 with
\* d * f >= k (k / d <= f over the rationals); the integer quotient k / d
\* is at most f.
C17_DivisorIsSmallestExact ==
    DivisorSucceeded =>
        /\ DivisorUsed = DivisorWanted
        /\ WLeq(oarg.spi_kernel_ck,
                WMul(oarg.config.frequency, WInt(DivisorUsed)))
        /\ \A e \in 1..256 : WLess(W(e), DivisorUsed) =>
              WLess(WMul(oarg.config.frequency, e), oarg.spi_kernel_ck)
        /\ WLeq(WDiv(oarg.spi_kernel_ck, DivisorUsed), oarg.config.frequency)

\* the Hyperbus path has computed divisor 10 for 90_000_001 Hz and 10 MHz,
\* where the integer quotient by 9 is already 10 MHz
C17_Witness ==
    /\ OKind("hyperbus") /\ DivisorSucceeded
    /\ oarg.spi_kernel_ck = W(90000001) /\ oarg.config.frequency = W(10000000)
    /\ oloc.divisor = W(10) /\ oloc.frequency = W(9000000)
    /\ WDiv(oarg.spi_kernel_ck, W(9)) = oarg.config.frequency

\* the order of the hardware accesses of the SPI configure path
SpiOrder == <<"cr.en=0", "busy=0", "fcr", "cr", "dcr1", "ccr", "dcr2", "tcr",
              "cr.en=1">>

\* C20: the SPI configure path clears the enable bit, observes busy clear,
\* clears the flags, writes CR (functional mode, FIFO threshold), DCR1, CCR,
\* the prescaler, TCR and sets the enable bit, in this order; no
\* configuration register is written before busy was read clear, and the
\* enable-bit set is the last write.
C20_SpiWriteOrder ==
    /\ [](OKind("spi") =>
            /\ Len(wlog) <= Len(SpiOrder)
            /\ wlog = SubSeq(SpiOrder, 1, Len(wlog))
            /\ (otok = "Octospi" /\ opc = "idle") =>
                    (wlog = SpiOrder /\ ospi.cr.en)
            /\ Len(wlog) < Len(SpiOrder) => ~ospi.cr.en)
    /\ [][(OKind("spi") /\ Len(wlog') = 2 /\ Len(wlog) = 1) => ~hw_busy]_vars

\* the SPI path has returned after waiting for a busy controller
C20_Witness ==
    /\ otok = "Octospi" /\ opc = "idle" /\ ospi.cr.en
    /\ Len(wlog) = 9 /\ wlog[2] = "busy=0" /\ wlog[9] = "cr.en=1"
    /\ ospi.dcr2.prescaler = 8

(***************************************************************************)
(* Statements about the DAC channel lifecycle, under SpecDac               *)
(***************************************************************************)
EnabledStates == {"Enabled", "EnabledUnbuffered"}

LastCal(ch) == calhist[ch][Len(calhist[ch])]

\* C3: enable() and enable_unbuffered() are accepted only on a token in
\* Disabled and yield Enabled and EnabledUnbuffered respectively; no step
\* takes a token from Enabled to EnabledUnbuffered or back.
C3_EnableOnlyFromDisabled ==
    [][\A ch \in Channels :
        /\ (pc[ch] = "idle"
              /\ pc'[ch] \in {"enable_cr", "enable_unbuffered_cr"})
              => token[ch] = "Disabled"
        /\ (pc[ch] = "enable_cr" /\ pc'[ch] = "idle")
              => token'[ch] = "Enabled"
        /\ (pc[ch] = "enable_unbuffered_cr" /\ pc'[ch] = "idle")
              => token'[ch] = "EnabledUnbuffered"
        /\ token[ch] = "Enabled" => token'[ch] # "EnabledUnbuffered"
        /\ token[ch] = "EnabledUnbuffered" => token'[ch] # "Enabled"]_vars

\* both enable calls have returned, each from a Disabled token
C3_Witness ==
    /\ token[1] = "Enabled" /\ dac.cr[1].en /\ dac.mcr[1] = 0
    /\ token[2] = "EnabledUnbuffered" /\ dac.cr[2].en /\ dac.mcr[2] = 2
    /\ \A ch \in Channels : pc[ch] = "idle"

\* C4 as stated: on a token in Enabled or EnabledUnbuffered no method other
\* than disable() runs; calibrate_buffer runs only on a token in Disabled.
C4_OnlyDisableOnEnabled ==
    \A ch \in Channels : token[ch] \in EnabledStates => pc[ch] = "idle"

\* C4 amended: on a token in Enabled or EnabledUnbuffered the methods that
\* run are disable() and calibrate_buffer(), never enable() or
\* enable_unbuffered(); the token changes only to Disabled, with the enable
\* bit clear, and disable() always changes it.
C4_EnabledLeavesOnlyToDisabled ==
    [][\A ch \in Channels : token[ch] \in EnabledStates =>
        /\ pc'[ch] \in {"idle", "panic"} \cup CalLabels
        /\ token'[ch] \in {token[ch], "Disabled"}
        /\ token'[ch] = "Disabled" => ~dac'.cr[ch].en
        /\ (pc[ch] = "idle" /\ pc'[ch] = "idle" /\ ~dac'.cr[ch].en)
              => token'[ch] = "Disabled"]_vars

\* calibrate_buffer is running on a channel whose token is EnabledUnbuffered
C4_Witness ==
    \E ch \in Channels :
        token[ch] = "EnabledUnbuffered" /\ pc[ch] = "cal_flag" /\ trim[ch] = 1

\* C5: whenever calibrate_buffer returns, from whatever state it was called
\* in, the enable bit and the calibration-enable bit of the channel are
\* clear and the returned token is in Disabled.
C5_CalibrateReturnsDisabled ==
    [][\A ch \in Channels : (pc[ch] = "cal_end" /\ pc'[ch] = "idle") =>
        /\ ~dac'.cr[ch].en
        /\ ~dac'.cr[ch].cen
        /\ token'[ch] = "Disabled"]_vars

\* calibrate_buffer has returned on a channel that was Enabled
C5_Witness ==
    \E ch \in Channels :
        /\ pc[ch] = "idle" /\ calhist[ch] # <<>>
        /\ LastCal(ch).from = "Enabled"
        /\ token[ch] = "Disabled" /\ DRegs(ch) = LastCal(ch).regs

\* C9: two calls of calibrate_buffer in succession on a Disabled channel,
\* the flag asserting at the same trim value both times, yield a Disabled
\* token both times and the same en, mode, cen and otrim after the second
\* call as after the first.
C9_CalibrateTwiceSameRegisters ==
    \A ch \in Channels :
        (Len(calhist[ch]) = 2 /\ calhist[ch][1].from = "Disabled"
            /\ calhist[ch][1].at = calhist[ch][2].at) =>
            /\ calhist[ch][1].tok = "Disabled"
            /\ calhist[ch][2].tok = "Disabled"
            /\ calhist[ch][2].from = calhist[ch][1].tok
            /\ calhist[ch][2].regs = calhist[ch][1].regs

\* two calibrations in succession from Disabled, the flag asserting both
\* times after the trim counter has passed the 5-bit field (33 -> otrim 1)
C9_Witness ==
    \E ch \in Channels :
        /\ Len(calhist[ch]) = 2 /\ calhist[ch][1].from = "Disabled"
        /\ calhist[ch][1].at = 33 /\ calhist[ch][2].at = 33
        /\ pc[ch] = "idle" /\ DRegs(ch) = calhist[ch][2].regs

\* C18: calibrate_buffer programs the trim values 0, 1, 2, ... in ascending
\* order, none skipped or repeated, each write followed by the delay and
\* one read of the flag; it stops at the first read that finds the flag
\* set, and the trim field then holds the smallest trim value at which the
\* flag was read set.
C18_TrimFieldHoldsCounter ==
    \A ch \in Channels :
        /\ pc[ch] \in {"cal_delay", "cal_flag", "cal_end"} =>
              dac.ccr[ch] = trim[ch]
        /\ (pc[ch] = "idle" /\ calhist[ch] # <<>>) =>
              (LastCal(ch).regs.otrim = LastCal(ch).at
                 /\ dac.ccr[ch] = LastCal(ch).at)

\* C19: while the flag reads clear the loop goes on to the next trim value,
\* every time: it does not stop or fault, and the counter does not wrap.
C19_TrimSearchUnbounded ==
    [][\A ch \in Channels :
        (pc[ch] = "cal_flag" /\ pc'[ch] \notin {"cal_flag", "cal_end"}) =>
            (pc'[ch] = "cal_trim" /\ trim'[ch] = trim[ch] + 1)]_vars

(***************************************************************************)
(* Statements about ownership of the tokens                                *)
(***************************************************************************)
\* C13: at most one live token exists for each DAC channel and each bus
\* controller; a method starts only on a token the caller holds, takes it
\* from the caller for as long as it runs, and hands back at most one.
C13_AtMostOneToken ==
    [][/\ live'.ospi \in {0, 1}
       /\ opc' # "idle" => live'.ospi = 0
       /\ (opc = "idle" /\ opc' # "idle") => live.ospi = 1
       /\ \A ch \in Channels :
             /\ live'.c[ch] \in {0, 1}
             /\ pc'[ch] # "idle" => live'.c[ch] = 0
             /\ (pc[ch] = "idle" /\ pc'[ch] # "idle") => live.c[ch] = 1
             /\ token'[ch] # token[ch] => live'.c[ch] = 1]_vars

\* channel 1 has been enabled and its token is back with the caller while
\* calibrate_buffer holds the token of channel 2
C13_Witness ==
    /\ token[1] = "Enabled" /\ pc[1] = "idle" /\ live.c[1] = 1
    /\ pc[2] = "cal_delay" /\ live.c[2] = 0

(***************************************************************************)
(* Statements about two call sites, under SpecDacShared                    *)
(***************************************************************************)
\* what the methods leave in the fields of a channel whose token has type
\* state ed, when nothing else writes the registers
LeftBy(ed, regs) ==
    /\ ~regs.cen
    /\ ed = "Enabled" => (regs.en /\ regs.mode = 0)
    /\ ed = "EnabledUnbuffered" => (regs.en /\ regs.mode = 2)
    /\ ed = "Disabled" => ~regs.en

\* C14: with the two channel tokens at two call sites running at the same
\* time, no update of a channel's enable, mode or calibration-enable bits
\* is lost: whenever a site is between two methods its channel's fields
\* are the ones its own last method left, as in a serial order.
C14_NoLostUpdate ==
    \A ch \in Channels : pc[ch] = "idle" => LeftBy(token[ch], DRegs(ch))

(***************************************************************************)
(* Statements about the output value, under SpecDacOut                     *)
(***************************************************************************)
\* C15: set_value and get_value are accepted on a token in every type
\* state; they leave the type state, the enable bit, the mode field, the
\* calibration-enable bit and the trim field unchanged, and set_value
\* changes only the data holding register of its channel.
C15_OutputValueFrame ==
    /\ [](\A ch \in Channels :
            (Idle /\ token[ch] \in EDStates) =>
                (ENABLED SetValue(ch) /\ ENABLED GetValue(ch)))
    /\ [][(dac'.dhr # dac.dhr \/ got' # got) =>
            /\ token' = token /\ pc' = pc
            /\ dac'.cr = dac.cr /\ dac'.mcr = dac.mcr /\ dac'.ccr = dac.ccr
            /\ dac'.dor = dac.dor
            /\ dac'.dhr # dac.dhr =>
                  (got' = got /\ \E ch \in Channels : \A c \in Channels :
                      c # ch => dac'.dhr[c] = dac.dhr[c])]_vars

\* set_value has been called on channel 1 Enabled and on channel 2
\* Disabled, and get_value has returned the value loaded from channel 1
C15_Witness ==
    /\ token[1] = "Enabled" /\ dac.cr[1].en /\ dac.dhr[1] = 4095
    /\ got[1] = 4095
    /\ token[2] = "Disabled" /\ ~dac.cr[2].en /\ dac.dhr[2] = 1
    /\ \A ch \in Channels : pc[ch] = "idle"

(***************************************************************************)
(* Statements about the memory-map transition, under SpecOctospi           *)
(***************************************************************************)
\* what Hyperbus::init has written and observed when it returns
InitOrder == <<"cr.en=1", "busy=0", "cr.fmode", "busy=0">>

\* C21: the functional mode field is memory-mapped only once init has
\* switched it, after the enable and a busy flag observed clear; while the
\* token is still the configured Hyperbus (init not begun) the field is not
\* memory-mapped; and once the address is returned init has observed busy
\* clear a second time.
C21_FmodeMappedOnlyByInit ==
    /\ (otok = "Hyperbus" /\ opc = "idle") => ospi.cr.fmode # 3
    /\ ospi.cr.fmode = 3 =>
          /\ Len(wlog) >= 3
          /\ SubSeq(wlog, 1, 3) = SubSeq(InitOrder, 1, 3)
    /\ otok = "MemoryMapped" => wlog = InitOrder

\* configure_hyperbus has returned its token, init has not begun, and the
\* functional mode field already reads memory-mapped
C21_Witness ==
    /\ otok = "Hyperbus" /\ opc = "idle" /\ panic.msg = "none"
    /\ ~ospi.cr.en /\ ospi.cr.fmode = 3 /\ mem = WZero

(***************************************************************************)
(* Statements about the sampling edge and DDR, under SpecOctospi           *)
(***************************************************************************)
\* some DDR transfer bit of the read or write communication configuration
DdrSet(regs) ==
    regs.ccr.ddtr \/ regs.ccr.addtr \/ regs.wccr.ddtr \/ regs.wccr.addtr

\* C22: in every reachable register state the sample-shift bit and a DDR
\* transfer bit are never both set; the SPI path never sets a DDR bit and
\* the Hyperbus path never sets sample-shift.
C22_NoSampleShiftWithDdr ==
    /\ ~(ospi.tcr.sshift /\ DdrSet(ospi))
    /\ OKind("spi") => ~DdrSet(ospi)
    /\ OKind("hyperbus") => ~ospi.tcr.sshift

\* the Hyperbus path has written CCR, WCCR and TCR: DDR is on for reads and
\* writes and the sample point is not shifted
C22_Witness ==
    /\ OKind("hyperbus") /\ otok = "Hyperbus" /\ opc = "idle"
    /\ ospi.ccr.ddtr /\ ospi.ccr.addtr /\ ospi.wccr.ddtr /\ ospi.wccr.addtr
    /\ ospi.tcr.dhqc /\ ~ospi.tcr.sshift

(***************************************************************************)
(* Statements about the busy waits, under SpecOctospiFair                  *)
(***************************************************************************)
\* the positions of the four `while regs.sr.read().busy().bit_is_set() {}`
WaitLabels == {"spi_busy", "hb_busy", "init_busy1", "init_busy2"}

\* C23: a busy wait has no timeout.  While the call is at a wait and BUSY
\* is set, no step writes a register, returns a token or an address, or
\* moves the call on; if BUSY is set for ever no call ever returns and
\* nothing but the clearing of the enable bit is written; if BUSY
\* eventually stays clear every call that has begun ends.
C23_BusyWaitBlocks ==
    /\ [][(opc \in WaitLabels /\ hw_busy) =>
            (opc' = opc /\ ospi' = ospi /\ wlog' = wlog /\ otok' = otok
             /\ mem' = mem /\ panic' = panic)]_vars
    /\ ([]hw_busy) =>
          [](otok = "Peripheral" /\ wlog \in {<<>>, <<"cr.en=0">>})
    /\ (<>[](~hw_busy)) => <>[](opc \in {"idle", "panic"})

\* init is at its second wait, the functional mode written, and BUSY is set
C23_Witness ==
    /\ opc = "init_busy2" /\ hw_busy
    /\ wlog = <<"cr.en=1", "busy=0", "cr.fmode">>
    /\ otok = "Hyperbus" /\ mem = WZero

(***************************************************************************)
(* Statements about the state left by the range error, under SpecOctospi   *)
(***************************************************************************)
\* C24: when a configure path fails with the frequency range error, nothing
\* but the clearing of the enable bit has been written: the log of the call
\* holds only that write and busy observations, and every register other
\* than the enable bit has the value it had before the call.
C24_NoPartialConfiguration ==
    panic.msg = RangeMsg =>
        /\ \A i \in 1..Len(wlog) : wlog[i] \in {"cr.en=0", "busy=0"}
        /\ ospi = [OspiReset EXCEPT !.cr = CrEnClear]

\* the SPI path has failed with the range error after writing the FIFO
\* threshold, the device configuration and the communication configuration
C24_Witness ==
    /\ panic.msg = RangeMsg /\ OKind("spi") /\ opc = "panic"
    /\ ~ospi.cr.en /\ ospi.cr.fthres = 31
    /\ ospi.dcr1 # OspiReset.dcr1 /\ ospi.ccr.dmode = 4
    /\ ospi.dcr2 = OspiReset.dcr2 /\ ospi.tcr = OspiReset.tcr

(***************************************************************************)
(* Statements about the type-state tag and the hardware, under SpecDac     *)
(***************************************************************************)
\* the step of channel ch is one of the statements that write the mode
\* field (mcr.modify in enable, enable_unbuffered, calibrate_buffer) or the
\* calibration-enable bit (cr.modify cen in calibrate_buffer)
WritesModeOrCen(ch) ==
    /\ pc'[ch] # pc[ch]
    /\ \/ pc[ch] = "idle" /\ pc'[ch] \in {"enable_cr", "enable_unbuffered_cr"}
       \/ pc[ch] \in {"cal_mcr", "cal_cen", "cal_end"}

\* C25: between two methods the tag of a channel's token agrees with the
\* hardware: Enabled means enable bit set and mode 0, EnabledUnbuffered
\* means enable bit set and mode 2, Disabled means enable bit and
\* calibration-enable bit clear; and every write of the mode field or of
\* the calibration-enable bit happens while the enable bit is clear.
C25_TagAgreesWithHardware ==
    /\ [](\A ch \in Channels : pc[ch] = "idle" =>
            /\ token[ch] = "Enabled" =>
                  (dac.cr[ch].en /\ dac.mcr[ch] = 0)
            /\ token[ch] = "EnabledUnbuffered" =>
                  (dac.cr[ch].en /\ dac.mcr[ch] = 2)
            /\ token[ch] = "Disabled" =>
                  (~dac.cr[ch].en /\ ~dac.cr[ch].cen))
    /\ [][\A ch \in Channels : WritesModeOrCen(ch) => ~dac.cr[ch].en]_vars

\* channel 1 is enabled unbuffered, channel 2 has been calibrated from
\* Enabled and is Disabled, each with the matching register fields
C25_Witness ==
    /\ \A ch \in Channels : pc[ch] = "idle"
    /\ token[1] = "EnabledUnbuffered" /\ dac.cr[1].en /\ dac.mcr[1] = 2
    /\ token[2] = "Disabled" /\ ~dac.cr[2].en /\ ~dac.cr[2].cen
    /\ Len(calhist[2]) >= 1 /\ LastCal(2).from = "Enabled"
    /\ dac.mcr[2] = 0

(***************************************************************************)
(* Statements comparing the two configure paths, under SpecOctospi         *)
(***************************************************************************)
\* what the Hyperbus path does with a kernel clock and a frequency: the
\* panic of its divisor match or of its frequency division, or else the
\* prescaler field `divisor - 1` it writes to DCR2
HyperbusPrescaler(checks, spi_kernel_ck, spi_frequency) ==
    LET d == HyperbusDivisor(checks, spi_kernel_ck, spi_frequency) IN
    IF d.panic # "none" THEN d
    ELSE LET fr == HyperbusFrequency(spi_kernel_ck, d.val) IN
         IF fr.panic # "none" THEN fr
         ELSE Ok(W(WInt(d.val) - 1))

\* C26: for the same kernel clock and requested frequency the two paths
\* agree: the divisor computation of the running path fails exactly when
\* that of the other path fails on the same inputs, and when it succeeds
\* the prescaler field it writes is the one the other path writes, a value
\* in 0..255.
C26_PathsAgree ==
    /\ (OKind("spi") /\ DivisorDone) =>
          LET h == HyperbusPrescaler(overflow_checks, oarg.spi_kernel_ck,
                                     oarg.config.frequency)
          IN  /\ (panic.at = "spi_prescaler") <=> (h.panic # "none")
              /\ panic.at # "spi_prescaler" =>
                    /\ ospi.dcr2.prescaler \in 0..255
                    /\ ospi.dcr2.prescaler = WInt(h.val)
    /\ (OKind("hyperbus") /\ DivisorDone) =>
          LET s == SpiDivisor(overflow_checks, oarg.spi_kernel_ck,
                              oarg.config.frequency)
          IN  /\ (panic.at = "hb_clock") <=> (s.panic # "none")
              /\ "dcr2" \in {wlog[i] : i \in 1..Len(wlog)} =>
                    /\ ospi.dcr2.prescaler \in 0..255
                    /\ ospi.dcr2.prescaler = AsU8(s.val)

\* the SPI path has returned with the prescaler field 255 for a kernel
\* clock of 256 MHz and a frequency of 1 MHz (divisor 256)
C26_Witness ==
    /\ OKind("spi") /\ otok = "Octospi" /\ opc = "idle"
    /\ oarg.spi_kernel_ck = W(256000000)
    /\ oarg.config.frequency = W(1000000)
    /\ ospi.dcr2.prescaler = 255 /\ ospi.cr.en


====
